---- MODULE Spec2Model ----
(***************************************************************************)
(* A state-machine model of the Arunya browser analytics agent             *)
(* (class AnalyticsTracker, src/unnamed/part_000): session identity and    *)
(* renewal, the durable session history under both storage backends, the   *)
(* rate limiter, payload composition, the beacon / fetch / retry delivery  *)
(* ladder and the enable / disable privacy switch.                         *)
(*                                                                         *)
(* The program state is gathered in one record (State) so that handlers    *)
(* that call each other compose as operators from state to state, the way  *)
(* the methods of the class do.  Every action of Next applies one handler  *)
(* (one browser task with the microtasks it runs) and commits the result.  *)
(***************************************************************************)
EXTENDS Integers, Sequences, FiniteSets, TLC

(* ----------------------------- constants of the program --------------- *)
DEFAULT_SESSION_TIMEOUT == 1800000
SESSION_CHECK_INTERVAL == 30000
eventThrottleInterval == 500
RetryLimit == 3
RetryDelay == 500
HistoryCap == 20
MutationDebounce == 500
WebsiteId == "abc123"

(* ----------------------------- bounds of the model -------------------- *)
StartTime == 100000   \* Date.now() when the first page is loaded
MaxTicks == 3         \* clock advances per behaviour
MaxCalls == 3         \* calls and events of the host page and the user
MaxLoads == 1         \* page loads after the first one
MaxIds == 3           \* session ids crypto.randomUUID() may still return
MaxToggles == 2       \* enable() / disable() calls
MaxFaults == 1        \* failing requests of the primary store
OldBase == 100        \* ids archived by earlier page loads are OldBase+1 ..

NoId == 0
NoTime == 0
FreshIds == 1..MaxIds
OldIds == {OldBase + k : k \in 1..HistoryCap}
\* The clock moves in these steps: inside the throttle window, exactly one
\* window, one expiry-check period, one default idle timeout.
Deltas == {100, 500, SESSION_CHECK_INTERVAL, DEFAULT_SESSION_TIMEOUT}
\* A JavaScript value of type number | string | undefined: kind says which,
\* n is the number, s the characters of the string.
Undefined == [kind |-> "undefined", n |-> 0, s |-> << >>]
NaN == [kind |-> "NaN", n |-> 0, s |-> << >>]
Num(n) == [kind |-> "num", n |-> n, s |-> << >>]
Str(s) == [kind |-> "str", n |-> 0, s |-> s]
\* An attribute of the script tag: getAttribute returns null (set is FALSE)
\* or the characters of its value.
Absent == [set |-> FALSE, s |-> << >>]
Attr(s) == [set |-> TRUE, s |-> s]
\* document.currentScript (present is FALSE: null) with its
\* data-arunya-website-id and data-arunya-session-timeout attributes.
NoScript == [present |-> FALSE, websiteId |-> Absent, timeout |-> Absent]
Script(websiteId, timeout) ==
    [present |-> TRUE, websiteId |-> websiteId, timeout |-> timeout]
\* config.sessionTimeout as handed to the constructor.
DefaultTimeout == Undefined
ShortTimeout == Num(1000)
TimeoutInputs == {DefaultTimeout, ShortTimeout}
\* track(event, data): the event names and data bags the host page passes.
EventTypes == {"x", "", "__proto__"}
NoData == [k \in {} |-> 0]
DataBags == { NoData,
              [plan |-> "pro"],
              [type |-> "spoof", sessionId |-> -1, websiteId |-> "other"] }
BeaconOutcomes == {"accepted", "rejected", "throws"}
\* The values of data-arunya-session-timeout and of data-arunya-website-id,
\* and the script tags made of them.
TimeoutAttrs ==
    { Absent, Attr(<< >>), Attr(<< "a", "b", "c" >>),
      Attr(<< "1", "0", "0", "0" >>), Attr(<< " ", "1", "0", "0", "0" >>),
      Attr(<< "-", "5" >>), Attr(<< "1", "2", "p", "x" >>) }
WebsiteIdAttrs == { Absent, Attr(<< >>), Attr(<< "a", "b", "c", "1", "2", "3" >>) }
ScriptTags ==
    {NoScript} \cup {Script(w, t) : w \in WebsiteIdAttrs, t \in TimeoutAttrs}
Elements == {"b1", "s1", "n1"}
Paths == {"/", "/a"}

VARIABLES
    now,                \* Date.now()
    dnt,                \* navigator.doNotTrack === '1'
    idbAvailable,       \* 'indexedDB' in window
    lsDisabled,         \* localStorage['arunya.disabled'] === 'true'
    lsSessions,         \* localStorage['arunya.previousSessions'] (JSON array)
    idb,                \* object store previousSessions: {id, timestamp} records
    ssSessionId,        \* sessionStorage['arunya.sessionId']
    ssLastUsed,         \* sessionStorage['arunya.lastUsed']
    issued,             \* ids crypto.randomUUID() has returned
    path,               \* location.pathname + location.search
    dom,                \* per element: data-arunya-id and attached click handlers
    sessionTimeout,     \* this.config.sessionTimeout
    enabled,            \* this.enabled
    sessionId,          \* this.sessionId
    lastUsed,           \* this.lastUsed
    previousSessionIds, \* this.previousSessionIds: a reference into arrays
    arrays,             \* the heap of JavaScript arrays holding session ids
    lastEventTimestamps,\* this.lastEventTimestamps
    intervalId,         \* this.intervalId (0: undefined)
    intervals,          \* active setInterval timers: {h, due}
    inits,              \* initialize() calls waiting on getPreviousSessionIds()
    renewals,           \* renewSession() calls waiting on the primary store
    sends,              \* every sendEvent() that passed the enabled gate
    lastTrackedPath,    \* this.lastTrackedPath
    patched,            \* wrappers installed around history.pushState/replaceState
    navListener,        \* popstate / hashchange listener registered
    mutationObserver,   \* this.mutationObserver (0: undefined)
    observers,          \* connected MutationObservers
    tracked,            \* this.trackedElements
    exposed,            \* window.arunya is defined
    mutationThrottleTimer, \* this.mutationThrottleTimer: due time (0: null)
    obs,                \* history: what an observer of the page has seen
    archived,           \* history: the ids replaced by renewals, oldest first
    trackLog,           \* history: every track() call of this page, in order
    ticks, loads, toggles, faults, calls   \* what the bounds count

progVars == << now, dnt, idbAvailable, lsDisabled, lsSessions, idb, ssSessionId,
               ssLastUsed, issued, path, dom, sessionTimeout, enabled, sessionId,
               lastUsed, previousSessionIds, arrays, lastEventTimestamps,
               intervalId, intervals, inits, renewals, sends, lastTrackedPath,
               patched, navListener, mutationObserver, observers, tracked,
               exposed, mutationThrottleTimer, obs, archived >>
boundVars == << ticks, loads, toggles, faults, calls >>
vars == << progVars, trackLog, boundVars >>

\* The program state as one record.
State ==
    [ now |-> now, dnt |-> dnt, idbAvailable |-> idbAvailable,
      lsDisabled |-> lsDisabled, lsSessions |-> lsSessions, idb |-> idb,
      ssSessionId |-> ssSessionId, ssLastUsed |-> ssLastUsed, issued |-> issued,
      path |-> path, dom |-> dom, sessionTimeout |-> sessionTimeout,
      enabled |-> enabled, sessionId |-> sessionId, lastUsed |-> lastUsed,
      previousSessionIds |-> previousSessionIds, arrays |-> arrays,
      lastEventTimestamps |-> lastEventTimestamps, intervalId |-> intervalId,
      intervals |-> intervals, inits |-> inits, renewals |-> renewals,
      sends |-> sends, lastTrackedPath |-> lastTrackedPath, patched |-> patched,
      navListener |-> navListener, mutationObserver |-> mutationObserver,
      observers |-> observers, tracked |-> tracked, exposed |-> exposed,
      mutationThrottleTimer |-> mutationThrottleTimer, obs |-> obs,
      archived |-> archived ]

\* The state S holds before a step (Holds) and after it (Commit).
Holds(S) ==
    /\ now = S.now /\ dnt = S.dnt /\ idbAvailable = S.idbAvailable
    /\ lsDisabled = S.lsDisabled /\ lsSessions = S.lsSessions /\ idb = S.idb
    /\ ssSessionId = S.ssSessionId /\ ssLastUsed = S.ssLastUsed
    /\ issued = S.issued /\ path = S.path /\ dom = S.dom
    /\ sessionTimeout = S.sessionTimeout /\ enabled = S.enabled
    /\ sessionId = S.sessionId /\ lastUsed = S.lastUsed
    /\ previousSessionIds = S.previousSessionIds /\ arrays = S.arrays
    /\ lastEventTimestamps = S.lastEventTimestamps
    /\ intervalId = S.intervalId /\ intervals = S.intervals /\ inits = S.inits
    /\ renewals = S.renewals /\ sends = S.sends
    /\ lastTrackedPath = S.lastTrackedPath /\ patched = S.patched
    /\ navListener = S.navListener /\ mutationObserver = S.mutationObserver
    /\ observers = S.observers /\ tracked = S.tracked /\ exposed = S.exposed
    /\ mutationThrottleTimer = S.mutationThrottleTimer /\ obs = S.obs
    /\ archived = S.archived

Commit(S) ==
    /\ now' = S.now /\ dnt' = S.dnt /\ idbAvailable' = S.idbAvailable
    /\ lsDisabled' = S.lsDisabled /\ lsSessions' = S.lsSessions /\ idb' = S.idb
    /\ ssSessionId' = S.ssSessionId /\ ssLastUsed' = S.ssLastUsed
    /\ issued' = S.issued /\ path' = S.path /\ dom' = S.dom
    /\ sessionTimeout' = S.sessionTimeout /\ enabled' = S.enabled
    /\ sessionId' = S.sessionId /\ lastUsed' = S.lastUsed
    /\ previousSessionIds' = S.previousSessionIds /\ arrays' = S.arrays
    /\ lastEventTimestamps' = S.lastEventTimestamps
    /\ intervalId' = S.intervalId /\ intervals' = S.intervals /\ inits' = S.inits
    /\ renewals' = S.renewals /\ sends' = S.sends
    /\ lastTrackedPath' = S.lastTrackedPath /\ patched' = S.patched
    /\ navListener' = S.navListener /\ mutationObserver' = S.mutationObserver
    /\ observers' = S.observers /\ tracked' = S.tracked
    /\ exposed' = S.exposed
    /\ mutationThrottleTimer' = S.mutationThrottleTimer /\ obs' = S.obs
    /\ archived' = S.archived

(* ----------------------------- helpers -------------------------------- *)
Range(s) == {s[i] : i \in 1..Len(s)}
Max(A) == CHOOSE a \in A : \A b \in A : b <= a
Pow2(i) == IF i = 0 THEN 1 ELSE IF i = 1 THEN 2 ELSE IF i = 2 THEN 4 ELSE 8

\* { ...base, ...data }: the keys of data win.
Spread(base, data) ==
    [k \in (DOMAIN base) \cup (DOMAIN data) |->
        IF k \in DOMAIN data THEN data[k] ELSE base[k]]

\* A set of numbers as an ascending sequence.
RECURSIVE SortNums(_)
SortNums(A) ==
    IF A = {} THEN << >>
    ELSE LET m == CHOOSE a \in A : \A b \in A : a <= b
         IN  << m >> \o SortNums(A \ {m})

RemoveAt(s, k) == [i \in 1..(Len(s) - 1) |-> IF i < k THEN s[i] ELSE s[i + 1]]

\* History kept for the properties: the tracker callbacks that ran while the
\* tracker was disabled; the async methods whose promise rejected with no
\* handler attached; when an observer last reported a mutation; what the
\* constructor of this page read; the page views composed on this page; the
\* last DOM or navigation event.
NoEvent ==
    [ kind |-> "none", target |-> "", gate |-> FALSE, first |-> 0, started |-> 0,
      composed |-> 0, lastViewed |-> "", changed |-> FALSE, attrs |-> NoData,
      name |-> "" ]
NoObs ==
    [ ran |-> {}, rejected |-> {}, mutated |-> NoTime,
      page |-> [dnt |-> FALSE, optedOut |-> FALSE, enableCalled |-> FALSE,
                sendsBefore |-> 0, ssBefore |-> NoId, timeout |-> Undefined,
                script |-> NoScript, logged |-> FALSE],
      viewed |-> [last |-> "", n |-> 0],
      event |-> NoEvent ]
Ran(S, kind) == IF S.enabled THEN S ELSE [S EXCEPT !.obs.ran = @ \cup {kind}]
\* An async method called without await or catch rejects.
Rejected(S, method) == [S EXCEPT !.obs.rejected = @ \cup {method}]

\* new Array: the reference of a fresh array holding s.
NewArray(S, s) == [S EXCEPT !.arrays = Append(@, s)]
NewRef(S) == Len(S.arrays) + 1

(* ----------------------------- session identity ----------------------- *)
\* parseInt(s, 10): leading white space is skipped, a sign is read, then
\* the longest run of decimal digits; with no digit the result is NaN.
Digits == << "0", "1", "2", "3", "4", "5", "6", "7", "8", "9" >>
IsDigit(c) == \E i \in 1..10 : Digits[i] = c
DigitValue(c) == (CHOOSE i \in 1..10 : Digits[i] = c) - 1
HasDigit(s) == \E i \in 1..Len(s) : IsDigit(s[i])

RECURSIVE TrimStart(_)
TrimStart(s) ==
    IF s # << >> /\ Head(s) = " " THEN TrimStart(Tail(s)) ELSE s

RECURSIVE DigitRun(_)
DigitRun(s) ==
    IF s # << >> /\ IsDigit(Head(s)) THEN << Head(s) >> \o DigitRun(Tail(s))
    ELSE << >>

RECURSIVE DecimalValue(_, _)
DecimalValue(ds, acc) ==
    IF ds = << >> THEN acc
    ELSE DecimalValue(Tail(ds), 10 * acc + DigitValue(Head(ds)))

parseInt(s) ==
    LET t == TrimStart(s)
        signed == t # << >> /\ Head(t) \in {"-", "+"}
        negative == t # << >> /\ Head(t) = "-"
        run == DigitRun(IF signed THEN Tail(t) ELSE t)
    IN  IF run = << >> THEN NaN
        ELSE Num(IF negative THEN 0 - DecimalValue(run, 0)
                 ELSE DecimalValue(run, 0))

\* C25 faulty variant: the parsed value is returned without the test.
validateSessionTimeoutUnchecked(t) ==
    (IF t.kind = "str" THEN parseInt(t.s) ELSE t).n

\* validateSessionTimeout: a string is parsed; NaN and undefined give the
\* default, every other number is used as supplied.
validateSessionTimeout(t) ==
    LET parsed == IF t.kind = "str" THEN parseInt(t.s) ELSE t
    IN  IF parsed.kind \in {"NaN", "undefined"} THEN DEFAULT_SESSION_TIMEOUT
        ELSE parsed.n

\* updateLastUsed: Date.now() into sessionStorage and into this.lastUsed.
updateLastUsed(S) == [S EXCEPT !.ssLastUsed = S.now, !.lastUsed = S.now]

\* getLastUsed: the stored value, or now when none is stored.
getLastUsed(S) == IF S.ssLastUsed # NoTime THEN S.ssLastUsed ELSE S.now

\* C24 faulty variant: a new id on every construction.
getSessionIdAlwaysNew(S, fresh) ==
    updateLastUsed([S EXCEPT !.ssSessionId = fresh, !.issued = @ \cup {fresh}])

\* getSessionId: the id in sessionStorage; when none is stored, a new random
\* id (fresh) is written and last-used is set.  The id returned is
\* ssSessionId of the resulting state.
getSessionId(S, fresh) ==
    IF S.ssSessionId # NoId THEN S
    ELSE updateLastUsed([S EXCEPT !.ssSessionId = fresh,
                                  !.issued = @ \cup {fresh}])

(* ----------------------------- storage adapter ------------------------ *)
StoredIds(S) == {r.id : r \in S.idb}

\* IDBObjectStore.getAll(): the records in key order; mapped to their ids.
IdbGetAllIds(S) == SortNums(StoredIds(S))

\* getPreviousSessionIds over localStorage: JSON.parse of the stored array.
FallbackGetIds(S) == S.lsSessions

\* saveToIndexedDB over localStorage: push unless already included.
FallbackSave(S, id) ==
    IF id \in Range(S.lsSessions) THEN S
    ELSE [S EXCEPT !.lsSessions = Append(@, id)]

\* saveToIndexedDB over the object store: store.add({id, timestamp: now}).
\* add() of a key that is already stored fails (ConstraintError).
IdbAddFails(S, id) == id \in StoredIds(S)
IdbAdd(S, id) == [S EXCEPT !.idb = @ \cup {[id |-> id, timestamp |-> S.now]}]

\* all.sort((a, b) => a.timestamp - b.timestamp) over getAll()'s key order: the
\* sort is stable, so records of one timestamp stay in key order.
RECURSIVE SortByTimestamp(_)
SortByTimestamp(R) ==
    IF R = {} THEN << >>
    ELSE LET m == CHOOSE r \in R : \A q \in R :
                     \/ r.timestamp < q.timestamp
                     \/ (r.timestamp = q.timestamp /\ r.id <= q.id)
         IN  << m >> \o SortByTimestamp(R \ {m})

\* cleanUpOldSessions(max) over the object store: delete the oldest records
\* beyond max.  Over localStorage it does nothing.
cleanUpOldSessions(S, max) ==
    LET all == SortByTimestamp(S.idb)
        n == Len(all)
    IN  IF n > max
        THEN [S EXCEPT !.idb = {all[i] : i \in (n - max + 1)..n}]
        ELSE S

(* ----------------------------- event composer ------------------------- *)
\* createBaseEventData.  previousSessions is this.previousSessionIds itself,
\* that is the reference of the array, not its content.  The url, referrer,
\* host, screen and timezone fields are read from the browser and not
\* modelled; url is pathname + search.
createBaseEventData(S) ==
    [ type |-> "", timestamp |-> S.now, url |-> S.path,
      sessionId |-> S.sessionId, websiteId |-> WebsiteId,
      previousSessions |-> S.previousSessionIds ]

\* JSON.stringify(data): the text put on the wire, the array read now.
Stringify(S, data) ==
    [data EXCEPT !.previousSessions = S.arrays[data.previousSessions]]

(* ----------------------------- delivery pipeline ---------------------- *)
\* One transmission attempt as written to a send's log: the channel, the
\* text on the wire, when it was made, and its result and when that was known.
Attempt(S, via, data, res) ==
    [ via |-> via, body |-> Stringify(S, data), at |-> S.now, res |-> res,
      settled |-> S.now ]

\* C8 faulty variant: the send ends without updateLastUsed().
SendFinallyWithoutTouch(S, k, result) ==
    [S EXCEPT !.sends[k].pc = "done",
              !.sends[k].result = result,
              !.sends[k].touched =
                  (S.lastUsed = S.now /\ S.ssLastUsed = S.now)]

\* The finally block of sendEvent: the send ends with updateLastUsed().
\* touched notes whether last-used then is the current time in both places.
SendFinally(S, k, result) ==
    LET S1 == updateLastUsed(S)
    IN  [S1 EXCEPT !.sends[k].pc = "done",
                   !.sends[k].result = result,
                   !.sends[k].touched =
                       (S1.lastUsed = S.now /\ S1.ssLastUsed = S.now)]

\* retryFetch: iteration i calls fetch(); the request is now in flight.
StartFetch(S, k, i) ==
    [S EXCEPT !.sends[k].pc = "fetch",
              !.sends[k].i = i,
              !.sends[k].log =
                  Append(@, Attempt(S, "fetch", S.sends[k].payload, "pending"))]

\* C10 faulty variant: sendEvent without the enabled gate.
sendEventUngated(S, data, beacon) ==
    LET k == Len(S.sends) + 1
        S1 == [S EXCEPT !.sends = Append(@,
                  [ payload |-> data, session |-> S.sessionId,
                    pc |-> "beacon", i |-> 0, wake |-> NoTime,
                    result |-> "", touched |-> FALSE,
                    log |-> << Attempt(S, "beacon", data, beacon) >> ])]
    IN  IF beacon = "accepted"
        THEN SendFinally(S1, k, "beacon")
        ELSE StartFetch(S1, k, 0)

\* sendEvent up to its first suspension: the enabled gate, the beacon, and
\* on a rejected or throwing beacon the first fetch of retryFetch.
sendEvent(S, data, beacon) ==
    IF ~S.enabled THEN S
    ELSE LET k == Len(S.sends) + 1
             S1 == [S EXCEPT !.sends = Append(@,
                       [ payload |-> data, session |-> S.sessionId,
                         pc |-> "beacon", i |-> 0, wake |-> NoTime,
                         result |-> "", touched |-> FALSE,
                         log |-> << Attempt(S, "beacon", data, beacon) >> ])]
         IN  IF beacon = "accepted"
             THEN SendFinally(S1, k, "beacon")
             ELSE StartFetch(S1, k, 0)

\* C9 faulty variant: the same delay before every retry.
BackoffFlat(i) == RetryDelay

\* The backoff before iteration i + 1: delay * Math.pow(2, i).
Backoff(i) == RetryDelay * Pow2(i)

\* retryFetch when the fetch of iteration i settles: a success status ends
\* the send; a network error or a non-success status is caught, and either
\* the last iteration warns and ends the send or a timer is set.
FetchSettled(S, k, outcome) ==
    LET s == S.sends[k]
        S1 == [S EXCEPT !.sends[k].log[Len(s.log)].res = outcome,
                        !.sends[k].log[Len(s.log)].settled = S.now]
    IN  IF outcome = "ok" THEN SendFinally(S1, k, "fetched")
        ELSE IF s.i = RetryLimit - 1 THEN SendFinally(S1, k, "exhausted")
        ELSE [S1 EXCEPT !.sends[k].pc = "wait",
                        !.sends[k].wake = S.now + Backoff(s.i)]

(* ----------------------------- rate limiter --------------------------- *)
\* this.lastEventTimestamps is a plain object literal.  For the key
\* "__proto__" the read returns Object.prototype (not a number, so the
\* subtraction is NaN and NaN < 500 is false) and the write of a number is
\* ignored by the __proto__ setter.
IsProtoKey(eventType) == eventType = "__proto__"

\* isThrottled: its result ...
isThrottled(S, eventType) ==
    IF IsProtoKey(eventType) THEN FALSE
    ELSE S.now - S.lastEventTimestamps[eventType] < eventThrottleInterval

\* ... and its effect: the time of an accepted call is recorded.
markEvent(S, eventType) ==
    IF isThrottled(S, eventType) \/ IsProtoKey(eventType) THEN S
    ELSE [S EXCEPT !.lastEventTimestamps[eventType] = S.now]

(* ----------------------------- public API: events --------------------- *)
\* track(event, data): { ...base, type: event, ...data }.
trackPayload(S, event, data) ==
    Spread(Spread(createBaseEventData(S), [type |-> event]), data)

track(S, event, data, beacon) ==
    IF isThrottled(S, event) THEN S
    ELSE sendEvent(markEvent(S, event), trackPayload(S, event, data), beacon)

trackPageView(S, beacon) ==
    LET S1 == [S EXCEPT !.obs.viewed = [last |-> S.path, n |-> @.n + 1]]
    IN  sendEvent(S1, Spread(createBaseEventData(S),
                             [type |-> "page_view", title |-> "doc"]), beacon)

(* ----------------------------- custom event data --------------------- *)
\* Strings the code takes apart are sequences of characters.
Letters ==
    << "a", "b", "c", "d", "e", "f", "g", "h", "i", "j", "k", "l", "m",
       "n", "o", "p", "q", "r", "s", "t", "u", "v", "w", "x", "y", "z" >>
Capitals ==
    << "A", "B", "C", "D", "E", "F", "G", "H", "I", "J", "K", "L", "M",
       "N", "O", "P", "Q", "R", "S", "T", "U", "V", "W", "X", "Y", "Z" >>
IsLower(c) == \E i \in 1..26 : Letters[i] = c
IsUpper(c) == \E i \in 1..26 : Capitals[i] = c
ToUpper(c) == IF IsLower(c) THEN Capitals[CHOOSE i \in 1..26 : Letters[i] = c] ELSE c
ToLower(c) == IF IsUpper(c) THEN Letters[CHOOSE i \in 1..26 : Capitals[i] = c] ELSE c
StartsWith(s, pre) == Len(s) >= Len(pre) /\ SubSeq(s, 1, Len(pre)) = pre
Drop(s, n) == SubSeq(s, n + 1, Len(s))

\* The names the attributes of an element are written with, after "data-",
\* and the values the host page gives them: a plain word, a JSON object,
\* text in braces that is not JSON, and text with an opening brace only.
ArunyaPrefix == << "a", "r", "u", "n", "y", "a" >>
AttrEvent == ArunyaPrefix \o << "-", "e", "v", "e", "n", "t" >>
AttrId == ArunyaPrefix \o << "-", "i", "d" >>
AttrPlan == ArunyaPrefix \o << "-", "p", "l", "a", "n" >>
AttrPlanTier == AttrPlan \o << "-", "t", "i", "e", "r" >>
AttrNames == {AttrPlan, AttrPlanTier}
ValuePlain == << "p", "r", "o" >>
ValueJson == << "{", "\"tier\":\"pro\"", "}" >>
ValueBraces == << "{", "t", "i", "e", "r", "}" >>
ValueOpen == << "{", "p", "r", "o" >>
AttrValues == {ValuePlain, ValueJson, ValueBraces, ValueOpen}

\* JSON.parse: the value, or a SyntaxError.
JsonParse(v) ==
    IF v = ValueJson THEN [ok |-> TRUE, value |-> [tier |-> "pro"]]
    ELSE [ok |-> FALSE, value |-> v]

\* element.dataset: the name of data-<name> with every "-" that is followed
\* by a lower-case letter removed and that letter in upper case.
RECURSIVE DatasetKey(_)
DatasetKey(name) ==
    IF name = << >> THEN << >>
    ELSE IF Head(name) = "-" /\ Len(name) >= 2 /\ IsLower(name[2])
    THEN << ToUpper(name[2]) >> \o DatasetKey(Drop(name, 2))
    ELSE << Head(name) >> \o DatasetKey(Tail(name))

\* .replace(/([A-Z])/g, '-$1').toLowerCase()
RECURSIVE Kebab(_)
Kebab(key) ==
    IF key = << >> THEN << >>
    ELSE (IF IsUpper(Head(key)) THEN << "-", ToLower(Head(key)) >>
          ELSE << ToLower(Head(key)) >>) \o Kebab(Tail(key))

\* key.replace('arunya', '') of a key that starts with it, then Kebab.
NormalizedKey(key) == Kebab(Drop(key, Len(ArunyaPrefix)))

\* One key of the dataset as extractCustomEventData handles it: the entry
\* it writes, as << key, value >>.
ExtractedEntry(key, value) ==
    IF value # << >> /\ Head(value) = "{" /\ value[Len(value)] = "}"
    THEN IF JsonParse(value).ok
         THEN << NormalizedKey(key), JsonParse(value).value >>
         ELSE << key, value >>
    ELSE << NormalizedKey(key), value >>

\* extractCustomEventData over a dataset (a function from keys to values).
extractCustomEventData(dataset) ==
    LET keys == {k \in DOMAIN dataset :
                    /\ StartsWith(k, ArunyaPrefix)
                    /\ k \notin {DatasetKey(AttrEvent), DatasetKey(AttrId)}}
        out == {ExtractedEntry(k, dataset[k])[1] : k \in keys}
    IN  [o \in out |->
            LET k == CHOOSE k \in keys : ExtractedEntry(k, dataset[k])[1] = o
            IN  ExtractedEntry(k, dataset[k])[2]]

(* ----------------------------- DOM observation ------------------------ *)
\* The document of the model, in document order: a button, an element
\* carrying data-arunya-event="signup", and a button the host page may
\* append to the body later.  All three match the selector list.
ScanIndex(e) == IF e = "b1" THEN 0 ELSE IF e = "s1" THEN 1 ELSE 2
TagName(e) == IF e = "s1" THEN "div" ELSE "button"
HasEventAttr(e) == e = "s1"
\* The value the document gives data-arunya-event; the page may change it.
EventName(e) == "signup"
EventNames == {"signup", ""}
SyntheticId(e) ==
    IF e = "b1" THEN "button-0" ELSE IF e = "s1" THEN "div-1" ELSE "button-2"
NoAttr == ""
FreshDom ==
    [e \in Elements |->
        [ present |-> e # "n1", id |-> NoAttr, handlers |-> 0,
          attrs |-> NoData, scans |-> 0,
          event |-> IF HasEventAttr(e) THEN EventName(e) ELSE "" ]]

\* setupEventListeners(element, index).
setupEventListeners(S, e) ==
    LET S1 == IF S.dom[e].id = NoAttr
              THEN [S EXCEPT !.dom[e].id = SyntheticId(e)] ELSE S
    IN  IF e \in S1.tracked THEN S1
        ELSE [S1 EXCEPT !.dom[e].handlers = @ + 1, !.tracked = @ \cup {e}]

\* C17 faulty variant: the scan also takes elements that carry an id.
setupElementTrackingAll(S) ==
    LET one(T, e) ==
            IF ~T.dom[e].present THEN T
            ELSE setupEventListeners(
                     [T EXCEPT !.dom[e].scans = IF @ < 2 THEN @ + 1 ELSE @], e)
    IN  one(one(one(S, "b1"), "s1"), "n1")

\* setupElementTracking: every matched element of the document without
\* data-arunya-id.  scans counts the passes an element was matched by.
setupElementTracking(S) ==
    LET one(T, e) ==
            IF ~T.dom[e].present THEN T
            ELSE LET T1 == [T EXCEPT !.dom[e].scans = IF @ < 2 THEN @ + 1 ELSE @]
                 IN  IF T1.dom[e].id = NoAttr
                     THEN setupEventListeners(T1, e) ELSE T1
    IN  one(one(one(S, "b1"), "s1"), "n1")

\* debounceTrackNewElements: a timer unless one is pending.
debounceTrackNewElements(S) ==
    LET S1 == [S EXCEPT !.obs.mutated = S.now]
    IN  IF S.mutationThrottleTimer # 0 THEN S1
        ELSE [S1 EXCEPT !.mutationThrottleTimer = S.now + MutationDebounce]

\* The timer callback of debounceTrackNewElements.
RescanTimerBody(S) ==
    [setupElementTracking(Ran(S, "rescan")) EXCEPT !.mutationThrottleTimer = 0]

\* observeDOMChanges: a new observer is connected and referenced.
observeDOMChanges(S) ==
    [S EXCEPT !.mutationObserver = 1, !.observers = @ + 1]

\* setupNavigationTracking: one more wrapper around pushState/replaceState;
\* addEventListener of the same function is registered once.
setupNavigationTracking(S) ==
    [S EXCEPT !.patched = @ + 1, !.navListener = TRUE]

\* element.dataset: the data-arunya-* attributes of e.
Dataset(S, e) ==
    LET names == (DOMAIN S.dom[e].attrs)
                    \cup (IF HasEventAttr(e) THEN {AttrEvent} ELSE {})
                    \cup (IF S.dom[e].id # NoAttr THEN {AttrId} ELSE {})
        valueOf(n) == IF n = AttrEvent THEN S.dom[e].event
                      ELSE IF n = AttrId THEN S.dom[e].id
                      ELSE S.dom[e].attrs[n]
    IN  [k \in {DatasetKey(n) : n \in names} |->
            valueOf(CHOOSE n \in names : DatasetKey(n) = k)]

\* C18 faulty variant: the target is read from the id attribute, which the
\* scan does not set.
clickPayloadFromIdAttribute(S, e) ==
    IF HasEventAttr(e)
    THEN Spread(createBaseEventData(S),
                [type |-> "custom_event", name |-> S.dom[e].event,
                 data |-> extractCustomEventData(Dataset(S, e))])
    ELSE Spread(createBaseEventData(S), [type |-> "click", target |-> "unknown"])

\* handleCustomEvent / handleElementClick.
clickPayload(S, e) ==
    IF HasEventAttr(e)
    THEN Spread(createBaseEventData(S),
                [type |-> "custom_event", name |-> S.dom[e].event,
                 data |-> extractCustomEventData(Dataset(S, e))])
    ELSE Spread(createBaseEventData(S),
                [type |-> "click",
                 target |-> IF S.dom[e].id = NoAttr THEN "unknown"
                            ELSE S.dom[e].id])

\* handleCustomEvent returns before composing anything when getAttribute
\* gives an empty name.
handleElementClick(S, e, beacon) ==
    IF HasEventAttr(e) /\ S.dom[e].event = "" THEN Ran(S, "click")
    ELSE sendEvent(Ran(S, "click"), clickPayload(S, e), beacon)

\* handleURLChange.
handleURLChange(S, beacon) ==
    LET S0 == Ran(S, "navigation")
    IN  IF S0.lastTrackedPath # S0.path
        THEN setupElementTracking(
                 trackPageView([S0 EXCEPT !.lastTrackedPath = S0.path], beacon))
        ELSE S0

(* ----------------------------- session manager ------------------------ *)
\* this.previousSessionIds.push(id): the array is changed in place.
PushPrevious(S, id) ==
    [S EXCEPT !.arrays[S.previousSessionIds] = Append(@, id)]

\* The tail of renewSession: a new id, written to sessionStorage, and
\* last-used reset.
IssueSession(S, fresh) ==
    updateLastUsed([S EXCEPT !.sessionId = fresh, !.ssSessionId = fresh,
                             !.issued = @ \cup {fresh},
                             !.archived = Append(@, S.sessionId)])

\* C27 faulty variant: the new id is issued before the old one is saved.
renewSessionUnarchived(S, fresh) ==
    IssueSession(PushPrevious(S, S.sessionId), fresh)

\* renewSession up to its first suspension.  Over localStorage nothing
\* suspends beyond microtasks and the renewal runs to its end; over the
\* object store it waits for the add request.
renewSession(S, fresh) ==
    LET S1 == PushPrevious(S, S.sessionId)
    IN  IF ~S.idbAvailable
        THEN IssueSession(FallbackSave(S1, S.sessionId), fresh)
        ELSE [S1 EXCEPT !.renewals = Append(@, [id |-> S.sessionId, pc |-> "save"])]

\* C28 faulty variant: a session also ends when the tab is older than the
\* timeout.
ExpiredOrOld(S) ==
    \/ S.now - S.lastUsed > S.sessionTimeout
    \/ S.now - StartTime > S.sessionTimeout

\* The test of periodicSessionCheck.
Expired(S) == S.now - S.lastUsed > S.sessionTimeout

periodicSessionCheck(S, fresh) ==
    LET S0 == Ran(S, "check")
    IN  IF Expired(S0) THEN renewSession(S0, fresh) ELSE S0

\* renewSession when the add request settles.
SaveSettled(S, k, ok) ==
    IF ok
    THEN [IdbAdd(S, S.renewals[k].id) EXCEPT !.renewals[k].pc = "cleanup"]
    ELSE Rejected([S EXCEPT !.renewals = RemoveAt(@, k)], "renewSession")

\* renewSession when cleanUpOldSessions settles.
CleanupSettled(S, k, ok, fresh) ==
    IF ok
    THEN IssueSession([cleanUpOldSessions(S, HistoryCap)
                          EXCEPT !.renewals = RemoveAt(@, k)], fresh)
    ELSE Rejected([S EXCEPT !.renewals = RemoveAt(@, k)], "renewSession")

(* ----------------------------- privacy gate and lifecycle ------------- *)
\* window.setInterval(this.periodicSessionCheck, SESSION_CHECK_INTERVAL).
NewHandle(S) == IF S.intervals = {} THEN 1 ELSE Max({t.h : t \in S.intervals}) + 1
SetInterval(S) ==
    [S EXCEPT !.intervalId = NewHandle(S),
              !.intervals = @ \cup {[h |-> NewHandle(S),
                                     due |-> S.now + SESSION_CHECK_INTERVAL]}]

\* initialize after the history has been read (ids).
InitializeBody(S, ids, beacon) ==
    LET S1 == [NewArray(S, ids) EXCEPT !.previousSessionIds = NewRef(S)]
        S2 == setupElementTracking(S1)
        S3 == observeDOMChanges(S2)
        S4 == setupNavigationTracking(S3)
        S5 == trackPageView(S4, beacon)
    IN  SetInterval(S5)

\* initialize up to its first suspension: over localStorage it runs to its
\* end, over the object store it waits for getPreviousSessionIds.
initialize(S, beacon) ==
    IF ~S.idbAvailable THEN InitializeBody(S, FallbackGetIds(S), beacon)
    ELSE [S EXCEPT !.inits = @ + 1]

\* initialize when the read settles: a failed read rejects initialize.
InitSettled(S, ok, beacon) ==
    LET S1 == [S EXCEPT !.inits = @ - 1]
    IN  IF ok THEN InitializeBody(S1, IdbGetAllIds(S1), beacon)
        ELSE Rejected(S1, "initialize")

\* cleanup.
cleanup(S) ==
    [S EXCEPT !.observers = IF S.mutationObserver # 0 THEN @ - 1 ELSE @,
              !.mutationObserver = 0,
              !.navListener = FALSE,
              !.intervals = {t \in @ : t.h # S.intervalId},
              !.intervalId = 0,
              !.tracked = {}]

\* C15 faulty variant: disable() that does not store the opt-out.
disableInMemory(S) == cleanup([S EXCEPT !.enabled = FALSE])

disable(S) == cleanup([S EXCEPT !.enabled = FALSE, !.lsDisabled = TRUE])

enable(S, beacon) ==
    initialize(updateLastUsed([S EXCEPT !.lsDisabled = FALSE, !.enabled = TRUE,
                                        !.obs.page.enableCalled = TRUE]),
               beacon)

\* new AnalyticsTracker(config) on the storage of S: the field initialisers,
\* then the constructor body.  A page load starts from a new document, with
\* no timer, request or listener of the page before.
NewPage(S) ==
    [NewArray(S, << >>) EXCEPT
        !.previousSessionIds = NewRef(S),
        !.dom = FreshDom, !.tracked = {},
        !.lastEventTimestamps = [t \in EventTypes |-> 0],
        !.intervalId = 0, !.intervals = {}, !.inits = 0, !.renewals = << >>,
        !.patched = 0, !.navListener = FALSE,
        !.mutationObserver = 0, !.observers = 0,
        !.mutationThrottleTimer = 0,
        !.obs = [NoObs EXCEPT !.page.dnt = S.dnt,
                              !.page.optedOut = S.lsDisabled,
                              !.page.sendsBefore = Len(S.sends),
                              !.page.ssBefore = S.ssSessionId],
        !.sends = [k \in DOMAIN @ |->
                      IF @[k].pc = "done" THEN @[k]
                      ELSE [@[k] EXCEPT !.pc = "unloaded"]]]

\* C13 faulty variant: the constructor does not look at do-not-track.
ConstructorIgnoringDnt(S, timeout, fresh, beacon) ==
    LET S1 == [NewPage(S) EXCEPT
                  !.sessionTimeout = validateSessionTimeout(timeout),
                  !.enabled = ~S.lsDisabled,
                  !.obs.page.timeout = timeout]
        S2 == getSessionId(S1, fresh)
        S3 == [S2 EXCEPT !.sessionId = S2.ssSessionId]
        S4 == [S3 EXCEPT !.lastUsed = getLastUsed(S3),
                         !.lastTrackedPath = S3.path]
    IN  IF S4.enabled THEN initialize(S4, beacon) ELSE S4

Constructor(S, timeout, fresh, beacon) ==
    LET S1 == [NewPage(S) EXCEPT
                  !.sessionTimeout = validateSessionTimeout(timeout),
                  !.enabled = ~S.lsDisabled,
                  !.obs.page.timeout = timeout]
        S2 == getSessionId(S1, fresh)
        S3 == [S2 EXCEPT !.sessionId = S2.ssSessionId]
        S4 == [S3 EXCEPT !.lastUsed = getLastUsed(S3),
                         !.lastTrackedPath = S3.path]
    IN  IF S4.enabled /\ ~S4.dnt THEN initialize(S4, beacon) ELSE S4

(* ----------------------------- script bootstrap ----------------------- *)
\* window.arunya = new AnalyticsTracker({websiteId, apiHost, sessionTimeout}).
Load(S, timeout, fresh, beacon) ==
    [Constructor(S, timeout, fresh, beacon) EXCEPT !.exposed = TRUE]

\* The new document when the script returns early: console.error, and no
\* tracker object.
NoTracker(S, script) ==
    [NewPage(S) EXCEPT !.exposed = FALSE, !.enabled = FALSE,
                       !.sessionId = NoId, !.lastUsed = NoTime,
                       !.sessionTimeout = 0,
                       !.obs.page.script = script, !.obs.page.logged = TRUE]

\* sessionTimeoutAttr ? parseInt(sessionTimeoutAttr, 10) : undefined.
ScriptTimeout(attr) ==
    IF attr.set /\ attr.s # << >> THEN parseInt(attr.s) ELSE Undefined

\* C23 faulty variant: the tracker is constructed whatever the tag holds.
BootstrapUnchecked(S, script, fresh, beacon) ==
    [Load(S, ScriptTimeout(script.timeout), fresh, beacon)
        EXCEPT !.obs.page.script = script]

\* The function the script runs when it is loaded.  A script tag that has a
\* website id has the id WebsiteId.
Bootstrap(S, script, fresh, beacon) ==
    IF ~script.present THEN NoTracker(S, script)
    ELSE IF ~script.websiteId.set \/ script.websiteId.s = << >>
    THEN NoTracker(S, script)
    ELSE [Load(S, ScriptTimeout(script.timeout), fresh, beacon)
             EXCEPT !.obs.page.script = script]

(* ----------------------------- initial states ------------------------- *)
\* The history earlier page loads left behind: empty, or HistoryCap ids.
\* Ids are random, so the key order of the ids says nothing about their age.
OldTimestamp(k) == StartTime - 1000 * (HistoryCap + 1 - k)
OldKey(k) == OldBase + ((k * 8) % (HistoryCap + 1))
OldRecords == {[id |-> OldKey(k), timestamp |-> OldTimestamp(k)] : k \in 1..HistoryCap}
OldArchive == [k \in 1..HistoryCap |-> OldKey(k)]

\* The browser before the script runs on the first page.
Browser(dntv, idbv, full) ==
    [ now |-> StartTime, dnt |-> dntv, idbAvailable |-> idbv,
      lsDisabled |-> FALSE,
      lsSessions |-> IF full /\ ~idbv THEN OldArchive ELSE << >>,
      idb |-> IF full /\ idbv THEN OldRecords ELSE {},
      ssSessionId |-> NoId, ssLastUsed |-> NoTime, issued |-> {},
      path |-> "/", dom |-> FreshDom, sessionTimeout |-> 0,
      enabled |-> FALSE, sessionId |-> NoId, lastUsed |-> NoTime,
      previousSessionIds |-> 0, arrays |-> << >>,
      lastEventTimestamps |-> [t \in EventTypes |-> 0],
      intervalId |-> 0, intervals |-> {}, inits |-> 0, renewals |-> << >>,
      sends |-> << >>, lastTrackedPath |-> "/", patched |-> 0,
      navListener |-> FALSE, mutationObserver |-> 0, observers |-> 0,
      tracked |-> {}, exposed |-> FALSE, mutationThrottleTimer |-> 0, obs |-> NoObs, archived |-> IF full THEN OldArchive ELSE << >> ]

\* The first page load of a tab, its inputs drawn from the given sets.
InitFrom(DntS, IdbS, FullS, TimeoutS, FreshS, BeaconS) ==
    /\ \E dntv \in DntS, idbv \in IdbS, full \in FullS,
          timeout \in TimeoutS, fresh \in FreshS, beacon \in BeaconS :
          Holds(Load(Browser(dntv, idbv, full), timeout, fresh, beacon))
    /\ trackLog = << >>
    /\ ticks = 0 /\ loads = 0 /\ toggles = 0 /\ faults = 0 /\ calls = 0

Init ==
    InitFrom(BOOLEAN, BOOLEAN, BOOLEAN, TimeoutInputs, FreshIds, BeaconOutcomes)

(* ----------------------------- actions -------------------------------- *)
Unused == FreshIds \ issued

\* Time passes.
Tick(d) ==
    /\ ticks < MaxTicks
    /\ ticks' = ticks + 1
    /\ now' = now + d
    /\ UNCHANGED << dnt, idbAvailable, lsDisabled, lsSessions, idb, ssSessionId,
                    ssLastUsed, issued, path, dom, sessionTimeout, enabled,
                    sessionId, lastUsed, previousSessionIds, arrays,
                    lastEventTimestamps, intervalId, intervals, inits, renewals,
                    sends, lastTrackedPath, patched, navListener,
                    mutationObserver, observers, tracked, exposed,
                    mutationThrottleTimer, obs, archived, trackLog,
                    loads, toggles, faults, calls >>

\* The host page calls window.arunya.track(event, data).
Track(event, data, beacon) ==
    /\ exposed
    /\ calls < MaxCalls
    /\ calls' = calls + 1
    /\ Commit(track(State, event, data, beacon))
    /\ trackLog' = Append(trackLog,
           [ event |-> event, at |-> now,
             accepted |-> ~isThrottled(State, event),
             gate |-> enabled,
             started |-> Len(sends') - Len(sends) ])
    /\ UNCHANGED << ticks, loads, toggles, faults >>

\* The host page calls window.arunya.trackPageView().
TrackPageView(beacon) ==
    /\ exposed
    /\ calls < MaxCalls
    /\ calls' = calls + 1
    /\ Commit(trackPageView(State, beacon))
    /\ UNCHANGED << trackLog, ticks, loads, toggles, faults >>

\* What an event did, for the history: the sends it started and the page
\* views it composed.
EventRecord(S, T, kind, target, changed) ==
    [ kind |-> kind, target |-> target, gate |-> S.enabled,
      first |-> Len(S.sends), started |-> Len(T.sends) - Len(S.sends),
      composed |-> T.obs.viewed.n - S.obs.viewed.n,
      lastViewed |-> S.obs.viewed.last, changed |-> changed,
      attrs |-> IF target \in Elements THEN S.dom[target].attrs ELSE NoData,
      name |-> IF target \in Elements THEN S.dom[target].event ELSE "" ]

\* Every click listener attached to e runs handleElementClick.
RECURSIVE ClickListeners(_, _, _, _)
ClickListeners(S, e, n, beacon) ==
    IF n = 0 THEN S
    ELSE ClickListeners(handleElementClick(S, e, beacon), e, n - 1, beacon)

\* Every wrapper around the history method runs handleURLChange.
RECURSIVE UrlChanges(_, _, _)
UrlChanges(S, n, beacon) ==
    IF n = 0 THEN S ELSE UrlChanges(handleURLChange(S, beacon), n - 1, beacon)

\* The user clicks an element that carries a click listener of the tracker.
Click(e, beacon) ==
    /\ calls < MaxCalls
    /\ dom[e].handlers > 0
    /\ calls' = calls + 1
    /\ LET T == ClickListeners(State, e, dom[e].handlers, beacon)
       IN  Commit([T EXCEPT !.obs.event =
                      EventRecord(State, T, "click", e, FALSE)])
    /\ UNCHANGED << trackLog, ticks, loads, toggles, faults >>

\* The host page calls history.pushState or history.replaceState: each
\* wrapper installed calls handleURLChange after the original.
PushState(p, beacon) ==
    /\ calls < MaxCalls
    /\ calls' = calls + 1
    /\ LET S1 == [State EXCEPT !.path = p]
           T == UrlChanges(S1, patched, beacon)
       IN  Commit([T EXCEPT !.obs.event =
                      EventRecord(State, T, "navigation", p, p # path)])
    /\ UNCHANGED << trackLog, ticks, loads, toggles, faults >>

\* The user navigates the history: a popstate event (p # path), or the
\* fragment alone changes: a hashchange event (p = path).
PopState(p, beacon) ==
    /\ calls < MaxCalls
    /\ calls' = calls + 1
    /\ LET S1 == [State EXCEPT !.path = p]
           T == IF navListener THEN handleURLChange(S1, beacon) ELSE S1
       IN  Commit([T EXCEPT !.obs.event =
                      EventRecord(State, T, "navigation", p, p # path)])
    /\ UNCHANGED << trackLog, ticks, loads, toggles, faults >>

\* The host page sets a data attribute of element e.
SetAttribute(e, name, value) ==
    /\ calls < MaxCalls
    /\ calls' = calls + 1
    /\ dom[e].present
    /\ Commit([State EXCEPT !.dom[e].attrs =
                  [n \in (DOMAIN @) \cup {name} |->
                      IF n = name THEN value ELSE @[n]]])
    /\ UNCHANGED << trackLog, ticks, loads, toggles, faults >>

\* The host page sets data-arunya-event of an element that carries it.
SetEventName(e, value) ==
    /\ calls < MaxCalls
    /\ calls' = calls + 1
    /\ dom[e].present /\ HasEventAttr(e)
    /\ dom[e].event # value
    /\ Commit([State EXCEPT !.dom[e].event = value])
    /\ UNCHANGED << trackLog, ticks, loads, toggles, faults >>

\* The host page changes the body: it appends element e, or (e = "text")
\* a node no selector matches.  Every connected observer is called back.
DomMutation(e) ==
    /\ calls < MaxCalls
    /\ calls' = calls + 1
    /\ e \in Elements => ~dom[e].present
    /\ LET S1 == IF e \in Elements
                 THEN [State EXCEPT !.dom[e].present = TRUE] ELSE State
       IN  Commit(IF observers > 0 THEN debounceTrackNewElements(S1) ELSE S1)
    /\ UNCHANGED << trackLog, ticks, loads, toggles, faults >>

\* The host page appends element e with a data-arunya-id it wrote itself.
AuthoredIds == {"cta"}
AppendAuthored(e, id) ==
    /\ calls < MaxCalls
    /\ calls' = calls + 1
    /\ ~dom[e].present
    /\ LET S1 == [State EXCEPT !.dom[e].present = TRUE, !.dom[e].id = id]
       IN  Commit(IF observers > 0 THEN debounceTrackNewElements(S1) ELSE S1)
    /\ UNCHANGED << trackLog, ticks, loads, toggles, faults >>

\* The debounce timer fires.
RescanTimerFires ==
    /\ mutationThrottleTimer # 0
    /\ now >= mutationThrottleTimer
    /\ Commit(RescanTimerBody(State))
    /\ UNCHANGED << trackLog, boundVars >>

\* The user changes the do-not-track preference of the browser.
SetDoNotTrack(v) ==
    /\ dnt # v
    /\ toggles < MaxToggles
    /\ toggles' = toggles + 1
    /\ Commit([State EXCEPT !.dnt = v])
    /\ UNCHANGED << trackLog, ticks, loads, faults, calls >>

\* A tracker in another tab of the origin writes localStorage: disable()
\* there sets the opt-out flag (v = TRUE), enable() removes it.
OtherTabSetsFlag(v) ==
    /\ lsDisabled # v
    /\ toggles < MaxToggles
    /\ toggles' = toggles + 1
    /\ Commit([State EXCEPT !.lsDisabled = v])
    /\ UNCHANGED << trackLog, ticks, loads, faults, calls >>

\* Time passes until the backoff timer of send k is due.
TimerElapses(k) ==
    /\ k \in DOMAIN sends
    /\ sends[k].pc = "wait"
    /\ now < sends[k].wake
    /\ now' = sends[k].wake
    /\ UNCHANGED << dnt, idbAvailable, lsDisabled, lsSessions, idb, ssSessionId,
                    ssLastUsed, issued, path, dom, sessionTimeout, enabled,
                    sessionId, lastUsed, previousSessionIds, arrays,
                    lastEventTimestamps, intervalId, intervals, inits, renewals,
                    sends, lastTrackedPath, patched, navListener,
                    mutationObserver, observers, tracked, exposed,
                    mutationThrottleTimer, obs, archived, trackLog,
                    boundVars >>

\* The fetch of send k settles.
FetchSettles(k, outcome) ==
    /\ k \in DOMAIN sends
    /\ sends[k].pc = "fetch"
    /\ Commit(FetchSettled(State, k, outcome))
    /\ UNCHANGED << trackLog, boundVars >>

\* The backoff timer of send k fires: the next iteration of retryFetch.
RetryTimerFires(k) ==
    /\ k \in DOMAIN sends
    /\ sends[k].pc = "wait"
    /\ now >= sends[k].wake
    /\ Commit(StartFetch(State, k, sends[k].i + 1))
    /\ UNCHANGED << trackLog, boundVars >>

\* An interval timer fires periodicSessionCheck.
SessionCheckFires(h, fresh) ==
    /\ \E t \in intervals : t.h = h /\ now >= t.due
    /\ fresh \in (IF Expired(State) /\ ~idbAvailable THEN Unused ELSE {NoId})
    /\ LET S1 == [State EXCEPT !.intervals =
                     {IF t.h = h THEN [t EXCEPT !.due = now + SESSION_CHECK_INTERVAL]
                      ELSE t : t \in @}]
       IN  Commit(periodicSessionCheck(S1, fresh))
    /\ UNCHANGED << trackLog, boundVars >>

\* The add request of renewal k settles.
RenewSaveSettles(k, ok) ==
    /\ k \in DOMAIN renewals
    /\ renewals[k].pc = "save"
    /\ ok => ~IdbAddFails(State, renewals[k].id)
    /\ (~ok /\ ~IdbAddFails(State, renewals[k].id)) => faults < MaxFaults
    /\ faults' = IF ~ok /\ ~IdbAddFails(State, renewals[k].id)
                 THEN faults + 1 ELSE faults
    /\ Commit(SaveSettled(State, k, ok))
    /\ UNCHANGED << trackLog, ticks, loads, toggles, calls >>

\* The cleanup transaction of renewal k settles.
RenewCleanupSettles(k, ok, fresh) ==
    /\ k \in DOMAIN renewals
    /\ renewals[k].pc = "cleanup"
    /\ ~ok => faults < MaxFaults
    /\ fresh \in (IF ok THEN Unused ELSE {NoId})
    /\ faults' = IF ok THEN faults ELSE faults + 1
    /\ Commit(CleanupSettled(State, k, ok, fresh))
    /\ UNCHANGED << trackLog, ticks, loads, toggles, calls >>

\* The history read of a pending initialize settles.
InitSettles(ok, beacon) ==
    /\ inits > 0
    /\ ~ok => faults < MaxFaults
    /\ faults' = IF ok THEN faults ELSE faults + 1
    /\ Commit(InitSettled(State, ok, beacon))
    /\ UNCHANGED << trackLog, ticks, loads, toggles, calls >>

\* The host page calls window.arunya.disable().
Disable ==
    /\ exposed
    /\ toggles < MaxToggles
    /\ toggles' = toggles + 1
    /\ Commit(disable(State))
    /\ UNCHANGED << trackLog, ticks, loads, faults, calls >>

\* The host page calls window.arunya.enable().
Enable(beacon) ==
    /\ exposed
    /\ toggles < MaxToggles
    /\ toggles' = toggles + 1
    /\ Commit(enable(State, beacon))
    /\ UNCHANGED << trackLog, ticks, loads, faults, calls >>

\* The page is loaded again in the same tab: the script runs on the storage
\* the page before left.
PageLoad(fresh, beacon) ==
    /\ loads < MaxLoads
    /\ loads' = loads + 1
    /\ fresh \in (IF ssSessionId = NoId THEN Unused ELSE {NoId})
    /\ exposed
    /\ Commit(Load(State, Num(sessionTimeout), fresh, beacon))
    /\ trackLog' = << >>
    /\ UNCHANGED << ticks, toggles, faults, calls >>

\* A page of the site is loaded in the tab with the given script tag.
ScriptLoad(script, fresh, beacon) ==
    /\ loads < MaxLoads
    /\ loads' = loads + 1
    /\ fresh \in (IF ssSessionId = NoId /\ Bootstrap(State, script, NoId, beacon).exposed
                  THEN Unused ELSE {NoId})
    /\ Commit(Bootstrap(State, script, fresh, beacon))
    /\ trackLog' = << >>
    /\ UNCHANGED << ticks, toggles, faults, calls >>

Next ==
    \/ \E d \in Deltas : Tick(d)
    \/ \E event \in EventTypes, data \in DataBags, beacon \in BeaconOutcomes :
          Track(event, data, beacon)
    \/ \E beacon \in BeaconOutcomes : TrackPageView(beacon)
    \/ \E e \in Elements, beacon \in BeaconOutcomes : Click(e, beacon)
    \/ \E p \in Paths, beacon \in BeaconOutcomes : PushState(p, beacon)
    \/ \E p \in Paths, beacon \in BeaconOutcomes : PopState(p, beacon)
    \/ \E e \in Elements \cup {"text"} : DomMutation(e)
    \/ \E e \in Elements, name \in AttrNames, value \in AttrValues :
          SetAttribute(e, name, value)
    \/ \E e \in Elements, value \in EventNames : SetEventName(e, value)
    \/ \E e \in Elements, id \in AuthoredIds : AppendAuthored(e, id)
    \/ RescanTimerFires
    \/ \E v \in BOOLEAN : SetDoNotTrack(v)
    \/ \E v \in BOOLEAN : OtherTabSetsFlag(v)
    \/ \E k \in DOMAIN sends, outcome \in {"ok", "http", "neterr"} :
          FetchSettles(k, outcome)
    \/ \E k \in DOMAIN sends : RetryTimerFires(k)
    \/ \E k \in DOMAIN sends : TimerElapses(k)
    \/ \E t \in intervals, fresh \in FreshIds \cup {NoId} :
          SessionCheckFires(t.h, fresh)
    \/ \E k \in DOMAIN renewals, ok \in BOOLEAN : RenewSaveSettles(k, ok)
    \/ \E k \in DOMAIN renewals, ok \in BOOLEAN, fresh \in FreshIds \cup {NoId} :
          RenewCleanupSettles(k, ok, fresh)
    \/ \E ok \in BOOLEAN, beacon \in BeaconOutcomes : InitSettles(ok, beacon)
    \/ Disable
    \/ \E beacon \in BeaconOutcomes : Enable(beacon)
    \/ \E fresh \in FreshIds \cup {NoId}, beacon \in BeaconOutcomes :
          PageLoad(fresh, beacon)
    \/ \E script \in ScriptTags, fresh \in FreshIds \cup {NoId},
          beacon \in BeaconOutcomes : ScriptLoad(script, fresh, beacon)

Spec == Init /\ [][Next]_vars

(* ----------------------------- the rate limiter ----------------------- *)
\* track() calls of one page, with the clock moving inside and across the
\* throttle window, and the privacy switch.
NextThrottle ==
    \/ \E d \in {100, 400} : Tick(d)
    \/ \E event \in EventTypes : Track(event, NoData, "accepted")
    \/ Disable
    \/ Enable("accepted")

InitThrottle ==
    InitFrom({FALSE}, {FALSE}, {FALSE}, {DefaultTimeout}, {1}, {"accepted"})

SpecThrottle == InitThrottle /\ [][NextThrottle]_vars

\* Call k of the page comes less than the throttle interval after an
\* accepted call of the same event type.
InsideWindow(k) ==
    \E j \in 1..(k - 1) :
        /\ trackLog[j].event = trackLog[k].event
        /\ trackLog[j].accepted
        /\ trackLog[k].at - trackLog[j].at < eventThrottleInterval

\* C1 (as claimed): a track(t) call is accepted, and hands one payload to
\* delivery, exactly when no call of the same type t was accepted less than
\* 500 ms earlier; a dropped call starts no transmission.
C1_ThrottlePerType ==
    \A k \in DOMAIN trackLog :
        /\ trackLog[k].accepted <=> ~InsideWindow(k)
        /\ ~trackLog[k].accepted => trackLog[k].started = 0
        /\ (trackLog[k].accepted /\ trackLog[k].gate) => trackLog[k].started = 1

\* The same statement for the event types other than "__proto__": it holds.
C1_ThrottleOrdinaryTypes ==
    \A k \in DOMAIN trackLog :
        ~IsProtoKey(trackLog[k].event) =>
            /\ trackLog[k].accepted <=> ~InsideWindow(k)
            /\ ~trackLog[k].accepted => trackLog[k].started = 0
            /\ (trackLog[k].accepted /\ trackLog[k].gate) => trackLog[k].started = 1

(* ----------------------------- session renewal and history ------------ *)
\* One tab with a short idle timeout: the clock, sends that touch the
\* session, the periodic expiry check, renewals over either backend with a
\* failing request of the primary store, and page loads.
NextSession ==
    \/ \E d \in {500, SESSION_CHECK_INTERVAL} : Tick(d)
    \/ Track("x", NoData, "accepted")
    \/ \E t \in intervals, fresh \in FreshIds \cup {NoId} :
          SessionCheckFires(t.h, fresh)
    \/ \E k \in DOMAIN renewals, ok \in BOOLEAN : RenewSaveSettles(k, ok)
    \/ \E k \in DOMAIN renewals, ok \in BOOLEAN, fresh \in FreshIds \cup {NoId} :
          RenewCleanupSettles(k, ok, fresh)
    \/ \E ok \in BOOLEAN : InitSettles(ok, "accepted")
    \/ \E fresh \in FreshIds \cup {NoId} : PageLoad(fresh, "accepted")

\* The tab starts with an empty history ...
InitSession ==
    InitFrom({FALSE}, BOOLEAN, {FALSE}, {ShortTimeout}, {2}, {"accepted"})
SpecSession == InitSession /\ [][NextSession]_vars

\* ... or with the HistoryCap ids that earlier renewals archived.
InitFullHistory ==
    InitFrom({FALSE}, BOOLEAN, {TRUE}, {ShortTimeout}, {1}, {"accepted"})
SpecFullHistory == InitFullHistory /\ [][NextSession]_vars

Min(a, b) == IF a <= b THEN a ELSE b
LastN(s, n) == SubSeq(s, Len(s) - Min(n, Len(s)) + 1, Len(s))
Reverse(s) == [i \in 1..Len(s) |-> s[Len(s) + 1 - i]]
NoDuplicates(s) == \A i, j \in 1..Len(s) : s[i] = s[j] => i = j
\* The list attached to payloads as previousSessions.
History == arrays[previousSessionIds]
\* No renewal and no initialization is waiting on the store; and on an
\* initialized tracker (its expiry timer is set) the history has been read.
Settled == renewals = << >> /\ inits = 0

\* C2 (as claimed): once the idle timeout has passed with no touch, the
\* next session-affecting operation yields a new session id: a send that
\* starts on an expired session does not carry the expired id.
C2_ExpiredSessionRenewed ==
    [][ \A k \in (DOMAIN sends') \ (DOMAIN sends) :
           Expired(State) => sends'[k].payload.sessionId # sessionId ]_vars

\* C3 (as claimed): after n renewals the history holds exactly the
\* min(n, 20) most recently archived ids, in the durable store of either
\* backend and in the list attached to payloads.
C3_HistoryHoldsLastCap ==
    (Settled /\ intervalId # 0) =>
        LET want == LastN(archived, HistoryCap)
        IN  /\ idbAvailable => StoredIds(State) = Range(want)
            /\ ~idbAvailable => /\ Range(lsSessions) = Range(want)
                                /\ Len(lsSessions) = Len(want)
            /\ Range(History) = Range(want)
            /\ Len(History) = Len(want)

\* C4 (as claimed): no id is twice in the session history, neither in the
\* list attached to payloads nor in the durable store.
C4_NoDuplicateIds ==
    /\ NoDuplicates(History)
    /\ NoDuplicates(lsSessions)
    /\ \A r, q \in idb : r.id = q.id => r = q

\* C5 (as claimed): the history attached to payloads, also as read back
\* from the durable store by a page load, lists the archived ids most
\* recently archived first.
C5_MostRecentFirst ==
    Settled => History = Reverse(LastN(archived, HistoryCap))

(* ----------------------------- delivery ------------------------------- *)
FetchOutcomes == {"ok", "http", "neterr"}

MaxSends == 2

\* One page: track() calls whose beacon is accepted, rejected or missing,
\* fetches that succeed or fail either way, the backoff timers, and the
\* expiry check with renewals while sends are in flight.
NextDelivery ==
    \/ Tick(SESSION_CHECK_INTERVAL)
    \/ \E beacon \in BeaconOutcomes :
          Len(sends) < MaxSends /\ Track("x", NoData, beacon)
    \/ \E k \in DOMAIN sends, outcome \in FetchOutcomes : FetchSettles(k, outcome)
    \/ \E k \in DOMAIN sends : RetryTimerFires(k)
    \/ \E k \in DOMAIN sends : TimerElapses(k)
    \/ \E t \in intervals, fresh \in FreshIds \cup {NoId} :
          SessionCheckFires(t.h, fresh)

InitDelivery ==
    InitFrom({FALSE}, {FALSE}, {FALSE}, {ShortTimeout}, {1}, {"accepted"})
SpecDelivery == InitDelivery /\ [][NextDelivery]_vars

\* Delivery alone, with the switch thrown off while sends are in flight.
NextTouch ==
    \/ Tick(100)
    \/ \E beacon \in BeaconOutcomes :
          Len(sends) < MaxSends /\ Track("x", NoData, beacon)
    \/ \E k \in DOMAIN sends, outcome \in FetchOutcomes : FetchSettles(k, outcome)
    \/ \E k \in DOMAIN sends : RetryTimerFires(k)
    \/ \E k \in DOMAIN sends : TimerElapses(k)
    \/ Disable

\* The browser settles every request and fires every timer that is due, and
\* time passes.
FairDelivery ==
    /\ WF_vars(\E k \in DOMAIN sends, outcome \in FetchOutcomes :
                  FetchSettles(k, outcome))
    /\ WF_vars(\E k \in DOMAIN sends : RetryTimerFires(k))
    /\ WF_vars(\E k \in DOMAIN sends : TimerElapses(k))
SpecTouch == InitDelivery /\ [][NextTouch]_vars /\ FairDelivery

\* C6 (as claimed): every transmission attempt of one payload carries the
\* same content, whatever happens to the history after composition.
C6_PayloadImmutable ==
    \A k \in DOMAIN sends :
        \A i, j \in DOMAIN sends[k].log :
            sends[k].log[i].body = sends[k].log[j].body


\* The composers under every caller: track() with any event name and any
\* data bag, page views and clicks.
NextPayload ==
    \/ Tick(eventThrottleInterval)
    \/ \E event \in EventTypes, data \in DataBags : Track(event, data, "accepted")
    \/ TrackPageView("accepted")
    \/ \E e \in Elements : Click(e, "accepted")

SpecPayload == InitDelivery /\ [][NextPayload]_vars

\* C7 (as claimed): every payload handed to the transport has a non-empty
\* type, the session id the tracker held when it was composed (a valid one)
\* and the configured website id.
C7_PayloadIdentity ==
    \A k \in DOMAIN sends :
        /\ sends[k].payload.type # ""
        /\ sends[k].payload.sessionId = sends[k].session
        /\ sends[k].payload.sessionId \in FreshIds \cup OldIds
        /\ sends[k].payload.websiteId = WebsiteId

SendSlots == 1..MaxSends

\* C8: every send started while tracking is enabled is eventually followed by
\* the touch (last-used set to the current time in memory and in
\* sessionStorage), whether or not the delivery succeeded.
C8_SendLeadsToTouch ==
    \A k \in SendSlots :
        (k \in DOMAIN sends) ~>
            (k \in DOMAIN sends /\ sends[k].pc = "done" /\ sends[k].touched)

\* C8 witness: a send whose three requests all failed has ended with the
\* touch.
C8_Witness ==
    \E k \in DOMAIN sends :
        /\ sends[k].result = "exhausted"
        /\ sends[k].touched
        /\ lastUsed = sends[k].log[Len(sends[k].log)].settled

\* C9: the beacon is tried first; a POST is made only when the beacon was
\* rejected or threw; a failed request is retried no sooner than 500 ms and
\* then 1000 ms after the failure; at most three requests are made, none after
\* a success; after the third failure the send ends without raising.
C9_DeliveryLadder ==
    \A k \in DOMAIN sends :
        LET s == sends[k]
            n == Len(s.log)
        IN  /\ s.log[1].via = "beacon"
            /\ \A j \in 2..n : s.log[j].via = "fetch"
            /\ n > 1 => s.log[1].res \in {"rejected", "throws"}
            /\ n - 1 <= 3
            /\ \A j \in 1..(n - 1) : s.log[j].res \notin {"accepted", "ok"}
            /\ n >= 3 => s.log[3].at >= s.log[2].settled + 500
            /\ n >= 4 => s.log[4].at >= s.log[3].settled + 1000
            /\ s.pc = "wait" => s.wake = s.log[n].settled + (IF n = 2 THEN 500 ELSE 1000)
            /\ (n = 4 /\ s.log[4].res \in {"http", "neterr"}) =>
                  s.pc = "done" /\ s.result = "exhausted"
            /\ s.pc = "done" => s.result \in {"beacon", "fetched", "exhausted"}
            /\ s.result = "exhausted" => n = 4
            /\ s.result = "beacon" => n = 1

\* C9 witness: a send that gave up after its third failed request, the
\* retries made exactly when their timers were due.
C9_Witness ==
    \E k \in DOMAIN sends :
        LET s == sends[k]
        IN  /\ s.result = "exhausted"
            /\ Len(s.log) = 4
            /\ s.log[3].at = s.log[2].settled + 500
            /\ s.log[4].at = s.log[3].settled + 1000


(* ----------------------------- privacy gate --------------------------- *)
\* Every source of payloads with the switch thrown both ways: track(), page
\* views, clicks, navigation and the completion of an asynchronous
\* initialization.  (periodicSessionCheck composes no payload.)
NextPrivacy ==
    \/ Tick(eventThrottleInterval)
    \/ Track("x", NoData, "accepted")
    \/ TrackPageView("accepted")
    \/ \E e \in Elements : Click(e, "accepted")
    \/ PushState("/a", "accepted")
    \/ PopState("/", "accepted")
    \/ InitSettles(TRUE, "accepted")
    \/ Disable
    \/ Enable("accepted")

InitPrivacy ==
    InitFrom({FALSE}, {TRUE}, {FALSE}, {DefaultTimeout}, {1}, {"accepted"})
SpecPrivacy == InitPrivacy /\ [][NextPrivacy]_vars

\* C10: while the tracker stays disabled, no step starts the transmission of
\* a new payload, whichever source the step comes from.
C10_NoSendWhileDisabled ==
    [][(~enabled /\ ~enabled') => Len(sends') = Len(sends)]_vars

\* C10 witness: track() was called on a disabled tracker, passed the
\* throttle and started nothing.
C10_Witness ==
    /\ ~enabled
    /\ \E k \in DOMAIN trackLog :
          /\ ~trackLog[k].gate
          /\ trackLog[k].accepted
          /\ trackLog[k].started = 0


(* ----------------------------- teardown ------------------------------- *)
\* A tracker initialized at construction (localStorage backend), the page
\* changing its body, the user clicking and navigating, the timers, and
\* disable().
NextTeardown ==
    \/ \E d \in {MutationDebounce, SESSION_CHECK_INTERVAL} : Tick(d)
    \/ \E e \in {"n1", "text"} : DomMutation(e)
    \/ RescanTimerFires
    \/ \E e \in {"b1", "n1"} : Click(e, "accepted")
    \/ PushState("/a", "accepted")
    \/ PopState("/", "accepted")
    \/ \E t \in intervals : SessionCheckFires(t.h, NoId)
    \/ Disable

InitTeardown ==
    InitFrom({FALSE}, {FALSE}, {FALSE}, {DefaultTimeout}, {1}, {"accepted"})
SpecTeardown == InitTeardown /\ [][NextTeardown]_vars

\* C11 (as claimed): after disable() no callback of the tracker runs any
\* more (the expiry check, a pending rescan, click and navigation callbacks)
\* and no mutation observer stays connected.
C11_TeardownComplete ==
    /\ obs.ran = {}
    /\ ~enabled => observers = 0


\* C12 (as claimed): disable() leaves the tracker disabled, the opt-out flag
\* stored, no timer and no observer held, and a second disable() right after
\* it changes nothing.
C12_DisableIdempotent ==
    [][toggles' # toggles =>
          /\ ~enabled' /\ lsDisabled'
          /\ intervalId' = 0 /\ mutationObserver' = 0
          /\ mutationThrottleTimer' = 0
          /\ disable(State)' = State']_vars


(* ----------------------------- privacy state ------------------------- *)
\* Nothing the tracker installs is present: no listener, wrapper, observer
\* or timer, no element scanned, no initialization pending.
NothingInstalled ==
    /\ observers = 0 /\ mutationObserver = 0 /\ mutationThrottleTimer = 0
    /\ patched = 0 /\ ~navListener
    /\ intervals = {} /\ intervalId = 0 /\ inits = 0
    /\ \A e \in Elements :
          dom[e].handlers = 0 /\ dom[e].id = NoAttr /\ dom[e].scans = 0

\* The browser preference and the stored flag change under a running
\* tracker (the user's settings, another tab), the page is used, and the
\* page is loaded again.
NextGate ==
    \/ Tick(eventThrottleInterval)
    \/ \E v \in BOOLEAN : SetDoNotTrack(v)
    \/ \E v \in BOOLEAN : OtherTabSetsFlag(v)
    \/ Track("x", NoData, "accepted")
    \/ Click("b1", "accepted")
    \/ PushState("/a", "accepted")
    \/ DomMutation("n1")
    \/ RescanTimerFires
    \/ InitSettles(TRUE, "accepted")
    \/ \E fresh \in FreshIds \cup {NoId} : PageLoad(fresh, "accepted")

InitGate ==
    InitFrom(BOOLEAN, BOOLEAN, {FALSE}, {DefaultTimeout}, {1}, {"accepted"})
SpecGate == InitGate /\ [][NextGate]_vars

\* C13: a tracker constructed while the browser signalled do-not-track has
\* installed nothing and composed no page view, and one constructed without
\* the signal (and not opted out) is initialized, whatever the preference
\* has become since.
C13_DoNotTrackAtConstruction ==
    /\ obs.page.dnt => NothingInstalled /\ obs.viewed.n = 0
    /\ (~obs.page.dnt /\ ~obs.page.optedOut /\ inits = 0) =>
          intervalId # 0 /\ patched > 0 /\ observers > 0

\* C13 witness: constructed under do-not-track, the preference withdrawn
\* afterwards, the page used since.
C13_Witness ==
    /\ obs.page.dnt /\ ~dnt
    /\ path # "/"
    /\ trackLog # << >>

\* C14 (as claimed): a tracker constructed under do-not-track transmits
\* nothing, also when track() or trackPageView() is called.
C14_NoSendUnderDoNotTrack ==
    (obs.page.dnt /\ ~obs.page.enableCalled) =>
        Len(sends) = obs.page.sendsBefore


\* The switch thrown on one page and the page loaded again on the same
\* storage.
NextOptOut ==
    \/ Tick(eventThrottleInterval)
    \/ Track("x", NoData, "accepted")
    \/ InitSettles(TRUE, "accepted")
    \/ Disable
    \/ Enable("accepted")
    \/ \E fresh \in FreshIds \cup {NoId} : PageLoad(fresh, "accepted")

InitOptOut ==
    InitFrom({FALSE}, BOOLEAN, {FALSE}, {DefaultTimeout}, {1}, {"accepted"})
SpecOptOut == InitOptOut /\ [][NextOptOut]_vars

\* C15: the tracker is enabled exactly when no opt-out is stored, on the
\* page that called disable() or enable() and on every page loaded later; a
\* tracker constructed on a stored opt-out installs nothing and sends nothing
\* until enable() is called, and one constructed without it initializes.
C15_OptOutPersisted ==
    /\ enabled <=> ~lsDisabled
    /\ (obs.page.optedOut /\ ~obs.page.enableCalled) =>
          /\ ~enabled
          /\ NothingInstalled
          /\ Len(sends) = obs.page.sendsBefore
    /\ (~obs.page.optedOut /\ enabled /\ inits = 0) => intervalId # 0

\* C15 witness: a page loaded after disable(), on which track() was called.
C15_Witness ==
    /\ obs.page.optedOut /\ ~obs.page.enableCalled
    /\ loads > 0
    /\ \E k \in DOMAIN trackLog : trackLog[k].started = 0

\* C16 (as claimed): while the opt-out flag is stored, whoever stored it, no
\* transmission is started.
C16_StoredFlagStopsSends ==
    [][(lsDisabled /\ lsDisabled') => Len(sends') = Len(sends)]_vars


(* ----------------------------- element scan --------------------------- *)
\* The scan run again and again: by the debounced rescan after the page
\* appends a node, by navigation, and by enable() after disable(); and the
\* user clicking what was scanned.
NextScan ==
    \/ Tick(MutationDebounce)
    \/ \E e \in {"n1", "text"} : DomMutation(e)
    \/ RescanTimerFires
    \/ \E e \in Elements : Click(e, "accepted")
    \/ \E p \in Paths : PushState(p, "accepted")
    \/ Disable
    \/ Enable("accepted")

SpecScan == InitTeardown /\ [][NextScan]_vars

\* C17: an element matched by a scan carries the identifier the scan gave it
\* and exactly one click listener, however many scans have matched it; no
\* element ever carries two.
C17_OneHandlerPerElement ==
    \A e \in Elements :
        /\ dom[e].handlers <= 1
        /\ dom[e].scans >= 1 =>
              dom[e].handlers = 1 /\ dom[e].id = SyntheticId(e)

\* C17 witness: an element matched by a second scan after disable() and
\* enable(), still with one listener.
C17_Witness ==
    /\ toggles = 2 /\ enabled
    /\ \E e \in Elements : dom[e].scans = 2 /\ dom[e].handlers = 1

\* C18: a click on a scanned button of an enabled tracker starts exactly one
\* send; its payload has type "click", the identifier the scan assigned as
\* target, and the configured website id.
C18_ClickEndToEnd ==
    (obs.event.kind = "click" /\ obs.event.gate /\ ~HasEventAttr(obs.event.target)) =>
        /\ obs.event.started = 1
        /\ LET p == sends[obs.event.first + 1].payload
           IN  /\ p.type = "click"
               /\ p.target = SyntheticId(obs.event.target)
               /\ p.target = dom[obs.event.target].id
               /\ p.websiteId = WebsiteId

\* C18 witness: the button of the initial document was clicked and one send
\* started.
C18_Witness ==
    /\ obs.event.kind = "click" /\ obs.event.target = "b1"
    /\ obs.event.gate /\ obs.event.started = 1


(* ----------------------------- custom events -------------------------- *)
\* The host page sets data attributes on the element carrying
\* data-arunya-event, and the user clicks it.
NextExtract ==
    \/ \E name \in AttrNames, value \in AttrValues : SetAttribute("s1", name, value)
    \/ Click("s1", "accepted")

SpecExtract == InitTeardown /\ [][NextExtract]_vars

\* C19 (as claimed): the data bag of a custom_event has one entry for each
\* data-arunya-* attribute other than event and id, keyed by the attribute
\* name after the prefix (data-arunya-plan gives "plan"), holding the parsed
\* JSON when the value is in braces and parses, the raw string otherwise.
C19_CustomEventData ==
    (obs.event.kind = "click" /\ obs.event.gate /\ HasEventAttr(obs.event.target)) =>
        LET p == sends[obs.event.first + 1].payload
            attrs == obs.event.attrs
            keyOf(n) == Drop(n, Len(ArunyaPrefix) + 1)
            inBraces(v) == v # << >> /\ Head(v) = "{" /\ v[Len(v)] = "}"
        IN  /\ p.type = "custom_event"
            /\ p.name = "signup"
            /\ DOMAIN p.data = {keyOf(n) : n \in DOMAIN attrs}
            /\ \A n \in DOMAIN attrs :
                  p.data[keyOf(n)] =
                      IF inBraces(attrs[n]) /\ JsonParse(attrs[n]).ok
                      THEN JsonParse(attrs[n]).value ELSE attrs[n]


(* ----------------------------- navigation ----------------------------- *)
\* A single-page application navigates while the page opts out and back in.
NextNavigation ==
    \/ \E p \in Paths : PushState(p, "accepted")
    \/ \E p \in Paths : PopState(p, "accepted")
    \/ Tick(SESSION_CHECK_INTERVAL)
    \/ Disable
    \/ Enable("accepted")

SpecNavigation == InitTeardown /\ [][NextNavigation]_vars

\* C20 (as claimed): a pushState, replaceState, popstate or hashchange on an
\* enabled tracker composes exactly one page view when the path differs from
\* the path of the last page view, and none when it is the same, also after
\* disable()/enable() cycles.
C20_OnePageViewPerPathChange ==
    (obs.event.kind = "navigation" /\ obs.event.gate) =>
        obs.event.composed =
            IF obs.event.target # obs.event.lastViewed THEN 1 ELSE 0


(* ----------------------------- storage failures ----------------------- *)
\* C21 (as claimed): when a request of the primary store fails, the history
\* read or write is carried out against the fallback store and completes:
\* a write that ends without the record in the object store has put the id
\* in the fallback list, and a history read that settles hands initialize
\* the ids of one of the two stores, so that initialize goes on.
C21_FallbackOnPrimaryFailure ==
    [][ /\ \A k \in DOMAIN renewals :
              (renewals[k].pc = "save" /\ renewals' = RemoveAt(renewals, k)) =>
                  renewals[k].id \in StoredIds(State)' \cup Range(lsSessions')
        /\ inits' < inits =>
              /\ intervalId' # 0
              /\ History' \in {IdbGetAllIds(State), lsSessions} ]_vars


\* C22 (as claimed): a storage failure is never surfaced and never stops
\* tracking: no promise of the tracker rejects unhandled, and an enabled
\* tracker whose startup read has settled is initialized: elements scanned,
\* observer connected, navigation hooked, page view composed, timer set.
C22_StorageFailureNotSurfaced ==
    /\ obs.rejected = {}
    /\ (enabled /\ inits = 0) =>
          /\ dom["b1"].scans > 0 /\ dom["b1"].handlers > 0
          /\ observers > 0 /\ mutationObserver # 0
          /\ patched > 0 /\ navListener
          /\ obs.viewed.n > 0
          /\ intervalId # 0


(* ----------------------------- script bootstrap ----------------------- *)
\* Pages of one site loaded in a tab, each with its own script tag, and what
\* the page and the user do on them.
BootTags == {NoScript} \cup {Script(w, Absent) : w \in WebsiteIdAttrs}

NextBootstrap ==
    \/ Tick(SESSION_CHECK_INTERVAL)
    \/ \E script \in BootTags, fresh \in FreshIds \cup {NoId} :
          ScriptLoad(script, fresh, "accepted")
    \/ Track("x", NoData, "accepted")
    \/ Click("b1", "accepted")
    \/ \E p \in Paths : PushState(p, "accepted")
    \/ \E p \in Paths : PopState(p, "accepted")
    \/ DomMutation("n1")
    \/ RescanTimerFires
    \/ \E t \in intervals : SessionCheckFires(t.h, NoId)

InitBootstrap ==
    /\ \E script \in BootTags :
          Holds(Bootstrap(Browser(FALSE, FALSE, FALSE), script, 1, "accepted"))
    /\ trackLog = << >>
    /\ ticks = 0 /\ loads = 0 /\ toggles = 0 /\ faults = 0 /\ calls = 0

SpecBootstrap == InitBootstrap /\ [][NextBootstrap]_vars

\* The script tag of this page has no website id (attribute absent or empty).
NoWebsiteId ==
    /\ obs.page.script.present
    /\ ~obs.page.script.websiteId.set \/ obs.page.script.websiteId.s = << >>

\* C23: on a page whose script tag carries no website id the agent logs and
\* does nothing else: window.arunya is not defined, there is no tracker
\* object, no session id is created or written, no observer, wrapper,
\* listener, handler or timer is installed and nothing is sent.
C23_MissingWebsiteId ==
    NoWebsiteId =>
        /\ obs.page.logged
        /\ ~exposed /\ sessionId = NoId
        /\ ssSessionId = obs.page.ssBefore
        /\ NothingInstalled
        /\ Len(sends) = obs.page.sendsBefore
        /\ obs.viewed.n = 0

C23_Witness ==
    /\ NoWebsiteId
    /\ obs.page.ssBefore # NoId
    /\ path = "/a"
    /\ ticks > 0


(* ----------------------------- session identity ----------------------- *)
\* When send k ended, and whether the sends of the tab up to send k all
\* ended, with less than the idle timeout from one to the next.
EndedAt(k) == sends[k].log[Len(sends[k].log)].settled
CloseSends(k) ==
    /\ \A i \in 1..k : sends[i].pc = "done"
    /\ \A i \in 1..(k - 1) : EndedAt(i + 1) - EndedAt(i) < sessionTimeout

\* C24: the constructor of the first page of a tab creates an unused id,
\* writes it and sets last-used to now; the constructor of a later page of
\* the tab takes the stored id and issues none; and as long as the sends of
\* the tab follow each other by less than the idle timeout, on one page or
\* across a page load, they carry the same sessionId.
C24_SessionIdReused ==
    /\ (sessionId = ssSessionId /\ issued = {sessionId}
        /\ lastUsed = now /\ ssLastUsed = now)
    /\ [][loads' > loads =>
            /\ sessionId' = ssSessionId /\ ssSessionId' = ssSessionId
            /\ issued' = issued]_vars
    /\ [](\A j, k \in DOMAIN sends :
             (j < k /\ CloseSends(k)) =>
                 sends[j].payload.sessionId = sends[k].payload.sessionId)

C24_Witness ==
    /\ loads > 0
    /\ ticks > 0
    /\ \E j, k \in DOMAIN sends :
          /\ j <= obs.page.sendsBefore /\ obs.page.sendsBefore < k
          /\ CloseSends(k)
          /\ EndedAt(k) > EndedAt(j)
          /\ sends[j].payload.sessionId = sessionId


(* ----------------------------- session timeout ------------------------ *)
\* The values a host page may hand to the constructor as sessionTimeout.
ValidateInputs ==
    { Undefined, NaN, Num(1000), Num(0), Num(-5),
      Str(<< >>), Str(<< "a", "b", "c" >>), Str(<< "1", "0", "0", "0" >>),
      Str(<< "1", "2", "p", "x" >>), Str(<< "-", "5" >>) }

\* A tracker constructed with any of these values, or by the script from a
\* tag with any timeout attribute; the clock and the expiry check.
NextTimeout ==
    \/ \E d \in {SESSION_CHECK_INTERVAL, DEFAULT_SESSION_TIMEOUT} : Tick(d)
    \/ \E t \in intervals, fresh \in FreshIds \cup {NoId} :
          SessionCheckFires(t.h, fresh)
    \/ Track("x", NoData, "accepted")
    \/ \E t \in TimeoutAttrs, fresh \in FreshIds \cup {NoId} :
          ScriptLoad(Script(Attr(<< "a", "b", "c", "1", "2", "3" >>), t),
                     fresh, "accepted")

InitTimeout ==
    InitFrom({FALSE}, {FALSE}, {FALSE}, ValidateInputs, {1}, {"accepted"})

SpecTimeout == InitTimeout /\ [][NextTimeout]_vars

\* The value is undefined, NaN or a string without a digit; the attribute is
\* absent, empty or without a digit.
NonNumericValue(t) ==
    \/ t.kind \in {"undefined", "NaN"}
    \/ t.kind = "str" /\ ~HasDigit(t.s)
NonNumericAttr(a) == ~a.set \/ ~HasDigit(a.s)

\* C25: a tracker given a session timeout that is undefined or non-numeric,
\* as constructor argument or as attribute of the script tag, has the
\* default idle timeout of 30 minutes.
C25_NonNumericTimeoutIsDefault ==
    (/\ exposed
     /\ \/ NonNumericValue(obs.page.timeout)
        \/ obs.page.script.present /\ NonNumericAttr(obs.page.script.timeout)) =>
        sessionTimeout = DEFAULT_SESSION_TIMEOUT

C25_Witness ==
    /\ exposed
    /\ obs.page.script.present
    /\ obs.page.script.timeout = Attr(<< "a", "b", "c" >>)
    /\ sessionTimeout = DEFAULT_SESSION_TIMEOUT
    /\ \E t \in intervals : now >= t.due + SESSION_CHECK_INTERVAL

\* The number supplied: the value itself, a string as parsed.
Supplied(t) == IF t.kind = "str" THEN parseInt(t.s) ELSE t

\* C26 (as claimed): the idle timeout is the supplied value when that is a
\* finite number >= 0, and the default of 30 minutes otherwise: for a
\* negative, NaN or missing value.
C26_TimeoutCoerced ==
    exposed =>
        LET v == Supplied(obs.page.timeout)
        IN  sessionTimeout =
                IF v.kind = "num" /\ v.n >= 0 THEN v.n
                ELSE DEFAULT_SESSION_TIMEOUT


(* ----------------------------- renewal -------------------------------- *)
\* The ids in the durable history of the backend in use.
Durable(S) == IF S.idbAvailable THEN StoredIds(S) ELSE Range(S.lsSessions)

\* C27: a step that changes the session id of a tracker leaves the id it
\* replaces in the durable history, which over the object store has been
\* pruned to the cap; the new id is an unused one, it is written to
\* tab-scoped storage, and last-used is reset in the same step.
C27_ArchivedBeforeIssued ==
    [][(sessionId' # sessionId /\ sessionId # NoId) =>
          /\ sessionId \in Durable(State)'
          /\ idbAvailable => /\ sessionId \in StoredIds(State)
                             /\ Cardinality(idb') <= HistoryCap
          /\ sessionId' \notin issued /\ ssSessionId' = sessionId'
          /\ lastUsed' = now' /\ ssLastUsed' = now']_vars

C27_Witness ==
    /\ Len(archived) > HistoryCap
    /\ idbAvailable
    /\ Cardinality(idb) = HistoryCap
    /\ archived[Len(archived)] \in StoredIds(State)
    /\ sessionId \notin Range(archived)


(* ----------------------------- session length ------------------------- *)
\* An idle timeout a little longer than the period of the expiry check, so
\* that a page that keeps sending outlives the timeout several times.
LongTimeout == Num(SESSION_CHECK_INTERVAL + 10000)

NextLongSession ==
    \/ \E d \in {500, SESSION_CHECK_INTERVAL} : Tick(d)
    \/ Track("x", NoData, "accepted")
    \/ \E t \in intervals, fresh \in FreshIds \cup {NoId} :
          SessionCheckFires(t.h, fresh)
    \/ \E k \in DOMAIN renewals : RenewSaveSettles(k, TRUE)
    \/ \E k \in DOMAIN renewals, fresh \in FreshIds :
          RenewCleanupSettles(k, TRUE, fresh)
    \/ InitSettles(TRUE, "accepted")
    \/ \E fresh \in FreshIds \cup {NoId} : PageLoad(fresh, "accepted")

InitLongSession ==
    InitFrom({FALSE}, BOOLEAN, {FALSE}, {LongTimeout}, {1}, {"accepted"})

SpecLongSession == InitLongSession /\ [][NextLongSession]_vars

\* C28: the session id changes only when a renewal issues a new one; a
\* renewal starts only in a step that finds now - lastUsed greater than the
\* timeout; and while the sends of the tab have ended less than the timeout
\* apart, the last of them less than the timeout ago, the id is still the
\* first one, whatever the age of the session.
C28_OnlyIdleExpiryRenews ==
    /\ [][(sessionId' # sessionId /\ sessionId # NoId) =>
             archived' = Append(archived, sessionId)]_vars
    /\ [][(Len(renewals') > Len(renewals) \/ Len(archived') > Len(archived)) =>
             \/ now - lastUsed > sessionTimeout
             \/ \E k \in DOMAIN renewals : renewals[k].pc = "cleanup"]_vars
    /\ [](( /\ sends # << >>
            /\ CloseSends(Len(sends))
            /\ now - EndedAt(Len(sends)) < sessionTimeout ) =>
              /\ archived = << >>
              /\ renewals = << >>
              /\ sessionId = sends[1].payload.sessionId)

C28_Witness ==
    /\ sends # << >>
    /\ CloseSends(Len(sends))
    /\ now - EndedAt(Len(sends)) < sessionTimeout
    /\ now - EndedAt(1) > sessionTimeout
    /\ loads = 0 /\ ~idbAvailable
    /\ \E t \in intervals : t.due > StartTime + 2 * SESSION_CHECK_INTERVAL


(* ----------------------------- last-used ------------------------------ *)
\* Send k ends in this step.
SendEnds(k) ==
    /\ k \in DOMAIN sends'
    /\ sends'[k].pc = "done"
    /\ k \in DOMAIN sends => sends[k].pc # "done"

\* C29 (as claimed): last-used, in the tracker and in tab-scoped storage,
\* changes only in a step in which a send ends or the session id is created
\* or renewed; enable(), disable() and dropped calls leave it unchanged.
C29_OnlySendsTouch ==
    [][(lastUsed' # lastUsed \/ ssLastUsed' # ssLastUsed) =>
          \/ \E k \in DOMAIN sends' : SendEnds(k)
          \/ sessionId' # sessionId]_vars


(* ----------------------------- mutation rescans ----------------------- *)
\* A page that changes its body in bursts, with the clock moving inside the
\* 500 ms window, and the privacy switch.
NextDebounce ==
    \/ \E d \in {100, MutationDebounce - 100} : Tick(d)
    \/ \E e \in {"n1", "text"} : DomMutation(e)
    \/ RescanTimerFires
    \/ Click("n1", "accepted")
    \/ Disable
    \/ Enable("accepted")

SpecDebounce == InitTeardown /\ [][NextDebounce]_vars

\* C30 (as claimed): the pending rescan runs only when no mutation has been
\* observed for 500 ms: every mutation of a burst postpones it.
C30_RescanAfterQuietPeriod ==
    [][(mutationThrottleTimer # 0 /\ mutationThrottleTimer' = 0) =>
          now - obs.mutated >= MutationDebounce]_vars

(* ----------------------------- click dispatch ------------------------- *)
\* The user clicks the scanned elements while the page rewrites the event
\* name of the element carrying data-arunya-event, appends a button, and
\* opts out and back in.
NextClick ==
    \/ Tick(MutationDebounce)
    \/ \E value \in EventNames : SetEventName("s1", value)
    \/ \E e \in Elements : Click(e, "accepted")
    \/ DomMutation("n1")
    \/ RescanTimerFires
    \/ Disable
    \/ Enable("accepted")

SpecClick == InitTeardown /\ [][NextClick]_vars

\* C31 (as claimed): a click on an element with a click listener of an
\* enabled tracker composes exactly one payload: a custom_event carrying the
\* value of data-arunya-event as its name when the element has that
\* attribute, whatever the value; otherwise a click whose target is the
\* element's data-arunya-id, or "unknown".
C31_ClickComposesOnePayload ==
    (obs.event.kind = "click" /\ obs.event.gate) =>
        /\ obs.event.started = 1
        /\ LET p == sends[obs.event.first + 1].payload
               e == obs.event.target
           IN  IF HasEventAttr(e)
               THEN p.type = "custom_event" /\ p.name = obs.event.name
               ELSE /\ p.type = "click"
                    /\ p.target = IF dom[e].id = NoAttr THEN "unknown"
                                  ELSE dom[e].id

(* ----------------------------- authored identifiers ------------------- *)
\* The page appends a button, with or without an identifier of its own; the
\* debounced rescan and the rescan of a navigation pass over it; the user
\* clicks; the page opts out and back in.
NextAuthored ==
    \/ Tick(MutationDebounce)
    \/ DomMutation("n1")
    \/ \E id \in AuthoredIds : AppendAuthored("n1", id)
    \/ RescanTimerFires
    \/ PushState("/a", "accepted")
    \/ \E e \in Elements : Click(e, "accepted")
    \/ Disable
    \/ Enable("accepted")

SpecAuthored == InitTeardown /\ [][NextAuthored]_vars

\* C32 (as claimed): an element a scan pass has matched carries exactly one
\* click listener of the tracker, whether or not it had a data-arunya-id
\* before the scan; its identifier is the one the page wrote, or else the one
\* the scan assigned.
C32_ScannedElementHasListener ==
    \A e \in Elements :
        dom[e].scans >= 1 =>
            /\ dom[e].handlers = 1
            /\ dom[e].id \in AuthoredIds \cup {SyntheticId(e)}

(* ----------------------------- one timer, one observer ---------------- *)
\* C33 (as claimed): at most one expiry timer and at most one mutation
\* observer of the tracker are active, whatever calls of enable() and
\* disable() came before, and every active timer is the one this.intervalId
\* refers to.
C33_OneTimerOneObserver ==
    /\ Cardinality(intervals) <= 1
    /\ observers <= 1
    /\ \A t \in intervals : t.h = intervalId
    /\ observers = 1 => mutationObserver # 0

(* ----------------------------- disable during initialization ---------- *)
\* C34 (as claimed): an initialization that resumes after disable() was
\* called installs nothing: when the history read of a disabled tracker
\* settles, no expiry timer is started, no mutation observer is connected,
\* no listener is added, and the tracker references neither.
C34_ResumedInitInstallsNothing ==
    [][(inits' < inits /\ ~enabled) =>
          /\ intervals' = intervals /\ intervalId' = 0
          /\ observers' = observers /\ mutationObserver' = 0
          /\ patched' = patched /\ navListener' = navListener
          /\ dom' = dom]_vars

(* ----------------------------- overlapping renewals ------------------- *)
Count(s, x) == Cardinality({i \in DOMAIN s : s[i] = x})

\* C35 (as claimed): an expiry check that fires while an earlier renewal
\* waits on the store does not make the renewal happen twice: no id is
\* replaced twice, the id a renewal is archiving is in the session history
\* once, and so is every id that was replaced, once the history is read.
C35_RenewalsDoNotOverlap ==
    /\ \A x \in Range(archived) : Count(archived, x) = 1
    /\ \A k \in DOMAIN renewals : Count(History, renewals[k].id) = 1
    /\ intervalId # 0 => \A x \in Range(archived) : Count(History, x) = 1

(* ----------------------------- payload and history ------------------- *)
\* C36 (as claimed): no transmission attempt carries a body whose session id
\* is one of its previousSessions.
C36_OwnIdNotInHistory ==
    \A k \in DOMAIN sends :
        \A i \in DOMAIN sends[k].log :
            LET body == sends[k].log[i].body
            IN  \A j \in DOMAIN body.previousSessions :
                    body.previousSessions[j] # body.sessionId

(* ----------------------------- expiry leads to renewal ---------------- *)
\* Every renewSession call pushes the id it is replacing, so the number of
\* times the current id is in the history is the number of renewals that
\* were started for it.
RenewalsStarted == Count(History, sessionId)

\* C37 (as claimed): an expired session is renewed within a bounded number
\* of expiry checks: a renewal that ended without a new id did so because a
\* request of the store failed, and the next check's renewal succeeds; so
\* when no renewal is pending, at most one more renewal than there were
\* failing requests has been started for the current id, on the page that
\* created the id.
C37_ExpiryLeadsToRenewal ==
    (renewals = << >> /\ intervalId # 0 /\ loads = 0) =>
        RenewalsStarted <= faults + 1

(* ----------------------------- page load after expiry ----------------- *)
\* C38 (as claimed): a tracker constructed in a tab whose stored last-used
\* time is older than the idle timeout does not take up the stored session:
\* its session id is a new one, the page view it sends carries the new id,
\* and the stored last-used time is not refreshed for the old id.
C38_ExpiredSessionNotReused ==
    [][(/\ loads' > loads /\ exposed'
        /\ ssSessionId # NoId
        /\ now - ssLastUsed > sessionTimeout') =>
          /\ sessionId' # ssSessionId
          /\ ssSessionId' = sessionId'
          /\ \A k \in DOMAIN sends' :
                k > Len(sends) => sends'[k].payload.sessionId # ssSessionId]_vars

(* ----------------------------- added elements ------------------------- *)
\* C39 (as claimed): no element added to the document is missed: once the
\* tracker is enabled and initialized and no rescan is pending any more,
\* every matching element of the document carries a click listener of the
\* tracker, however its insertion fell with respect to the rescan timer.
C39_NoAddedElementMissed ==
    (enabled /\ intervalId # 0 /\ observers > 0 /\ mutationThrottleTimer = 0) =>
        \A e \in Elements : dom[e].present => dom[e].handlers >= 1

====
